---- MODULE Spec2Model ----
(***************************************************************************)
(* Model of zainkhatri/mania, training/journal_detection:                  *)
(*   journal_detection.py  JournalDetector  (dataset preparation, training) *)
(*   journal_test.py       JournalTester    (inference driver)              *)
(*                                                                         *)
(* Numbers that the Python code holds as floats are modelled as exact      *)
(* rationals <<numerator, denominator>>; file names are modelled as        *)
(* <<stem, suffix>> with the stem a sequence of string tokens, so that     *)
(* Path(..).stem, Path(..).suffix and the "_aug<k>" formatting are         *)
(* operations on the name and not the identity.                            *)
(***************************************************************************)
EXTENDS Integers, Sequences, FiniteSets, TLC

VARIABLES
    sample,      \* SampleJournals/: file name -> "ok" | "missing" | "corrupt"
    images,      \* dataset/images/{train,val}: <<subset, stem, suffix>> -> image
    labels,      \* dataset/labels/{train,val}: <<subset, stem>> -> sequence of lines
    via_data,    \* labeled_journals.json: the entries of _via_img_metadata
    run,         \* the last process_via_annotations call, <<>> before the first
    lblIn,       \* arguments of the last label-file write made on its own
    augIn,       \* arguments of the last augment_image call
    augOut,      \* its return value
    cvIn,        \* arguments of the last convert_rect_to_yolo call
    cvOut,       \* its return value
    yaml,        \* dataset/journal.yaml: <<>> or <<content>>
    trainLog,    \* effects of train(), in program order
    trainOut,    \* outcome of the last train() call
    testIn,      \* arguments of the last JournalTester.process_image call
    testOut      \* its outcome: returned detections and rectangles drawn

vars == <<sample, images, labels, via_data, run, lblIn, augIn, augOut, cvIn, cvOut,
          yaml, trainLog, trainOut, testIn, testOut>>

prepVars == <<sample, images, labels, via_data, run, lblIn>>
augVars  == <<augIn, augOut>>
cvVars   == <<cvIn, cvOut>>
trainVars == <<yaml, trainLog, trainOut>>
testVars == <<testIn, testOut>>

(***************************************************************************)
(* Bounds of the model                                                     *)
(***************************************************************************)
MaxRegions == 2     \* regions per annotation entry
MaxEntries == 2     \* entries per export
MaxCoord   == 2     \* largest rectangle coordinate / size / image dimension
RatioDen   == 4     \* split ratios are k / RatioDen
MaxPreds   == 2     \* predictions returned by the detector for one image
ConfDen    == 2     \* confidences and thresholds are k / ConfDen
MaxTrains  == 3     \* train() calls per behaviour

\* sequences over S of length at most n
SeqsUpTo(S, n) == UNION {[1..k -> S] : k \in 0..n}

(***************************************************************************)
(* Exact rational arithmetic for Python's float arithmetic (+ and /)       *)
(***************************************************************************)
Abs(n) == IF n < 0 THEN -n ELSE n

RECURSIVE GCD(_, _)
GCD(a, b) == IF b = 0 THEN a ELSE GCD(b, a % b)

\* the rational n/d in lowest terms, d > 0
Rat(n, d) ==
    LET g == GCD(Abs(n), Abs(d))
        s == IF d < 0 THEN -1 ELSE 1
    IN  <<(s * n) \div g, (s * d) \div g>>

RInt(n) == <<n, 1>>
RAdd(a, b) == Rat(a[1] * b[2] + b[1] * a[2], a[2] * b[2])
RDiv(a, b) == Rat(a[1] * b[2], a[2] * b[1])
RMul(a, b) == Rat(a[1] * b[1], a[2] * b[2])
RLess(a, b) == a[1] * b[2] < b[1] * a[2]
RLeq(a, b) == a[1] * b[2] <= b[1] * a[2]

\* Python int(): truncation toward zero
PyInt(a) == IF a[1] >= 0 THEN a[1] \div a[2] ELSE -((-a[1]) \div a[2])

(***************************************************************************)
(* JournalDetector.__init__                                                *)
(***************************************************************************)
classes == <<"date", "title", "journal_entry", "main_image", "sub_image">>

class_weights ==
    [c \in {classes[i] : i \in 1..Len(classes)} |->
        CASE c = "date" -> <<5, 1>>
          [] c = "title" -> <<4, 1>>
          [] c = "journal_entry" -> <<2, 1>>
          [] c = "main_image" -> <<2, 1>>
          [] c = "sub_image" -> <<1, 1>>]

InClasses(t) == \E i \in 1..Len(classes) : classes[i] = t

\* list.index: position of the first match, counted from 0
ClassIndex(t) == (CHOOSE i \in 1..Len(classes) :
                     classes[i] = t /\ \A j \in 1..(i - 1) : classes[j] # t) - 1

\* dict.get(element_type, 1.0)
WeightOf(t) == IF t \in DOMAIN class_weights THEN class_weights[t] ELSE <<1, 1>>

(***************************************************************************)
(* Annotation data: regions, images                                        *)
(***************************************************************************)
\* region_attributes.get('element_type') of a region without the key
Absent == "<absent>"

Region(name, x, y, w, h, t) ==
    [name |-> name, x |-> x, y |-> y, width |-> w, height |-> h, element_type |-> t]

\* a pixel image: the file it was read from, its size, the enhancement applied
Image(src, w, h) == [src |-> src, width |-> w, height |-> h, enh |-> "none"]

\* ImageEnhance.<kind>(img).enhance(factor): same size, new pixel values
Enhance(img, kind) == [img EXCEPT !.enh = kind]

(***************************************************************************)
(* JournalDetector.convert_rect_to_yolo                                    *)
(***************************************************************************)
\* faulty variant: every component clamped to [0,1]
convert_rect_to_yolo_clamped(x, y, width, height, img_width, img_height) ==
    LET clamp(r) == IF RLess(r, RInt(0)) THEN RInt(0)
                    ELSE IF RLess(RInt(1), r) THEN RInt(1) ELSE r
        x_center == RAdd(RInt(x), RDiv(RInt(width), RInt(2)))
        y_center == RAdd(RInt(y), RDiv(RInt(height), RInt(2)))
    IN  <<clamp(RDiv(x_center, RInt(img_width))),
          clamp(RDiv(y_center, RInt(img_height))),
          clamp(RDiv(RInt(width), RInt(img_width))),
          clamp(RDiv(RInt(height), RInt(img_height)))>>

convert_rect_to_yolo(x, y, width, height, img_width, img_height) ==
    LET x_center == RAdd(RInt(x), RDiv(RInt(width), RInt(2)))
        y_center == RAdd(RInt(y), RDiv(RInt(height), RInt(2)))
    IN  <<RDiv(x_center, RInt(img_width)),
          RDiv(y_center, RInt(img_height)),
          RDiv(RInt(width), RInt(img_width)),
          RDiv(RInt(height), RInt(img_height))>>

(***************************************************************************)
(* JournalDetector.augment_image                                           *)
(***************************************************************************)
\* faulty variant: only rectangular date regions trigger augmentation
augment_image_rect_only(image, filename, regions) ==
    LET date_regions == SelectSeq(regions,
                            LAMBDA r : r.element_type = "date" /\ r.name = "rect")
    IN  IF date_regions # <<>>
        THEN [images  |-> <<image,
                            Enhance(image, "brightness_0.8"),
                            Enhance(image, "brightness_1.2"),
                            Enhance(image, "contrast_0.9"),
                            Enhance(image, "contrast_1.1")>>,
              regions |-> <<regions, regions, regions, regions, regions>>]
        ELSE [images |-> <<image>>, regions |-> <<regions>>]

augment_image(image, filename, regions) ==
    LET date_regions == SelectSeq(regions, LAMBDA r : r.element_type = "date")
    IN  IF date_regions # <<>>
        THEN [images  |-> <<image,
                            Enhance(image, "brightness_0.8"),
                            Enhance(image, "brightness_1.2"),
                            Enhance(image, "contrast_0.9"),
                            Enhance(image, "contrast_1.1")>>,
              regions |-> <<regions, regions, regions, regions, regions>>]
        ELSE [images |-> <<image>>, regions |-> <<regions>>]

(***************************************************************************)
(* File names and files                                                    *)
(***************************************************************************)
\* Path(filename).stem, Path(filename).suffix
Stem(filename) == filename[1]
Suffix(filename) == filename[2]

AugTag == <<"_aug1", "_aug2", "_aug3", "_aug4">>

\* faulty variant: every version saved under the original name
AugFilename_flat(filename, aug_idx) == filename

\* f"{stem}_aug{aug_idx}{suffix}" if aug_idx > 0 else filename
AugFilename(filename, aug_idx) ==
    IF aug_idx > 0
    THEN <<Append(Stem(filename), AugTag[aug_idx]), Suffix(filename)>>
    ELSE filename

\* cv2.imwrite / open(path, 'w'): creates the file or replaces its content
WriteFile(dir, key, content) ==
    [k \in (DOMAIN dir) \cup {key} |-> IF k = key THEN content ELSE dir[k]]

\* faulty variant: the directory is emptied
mkdir_fresh(dir) == <<>>

\* Path.mkdir(exist_ok=True): an existing directory keeps what it holds
mkdir(dir) == dir

\* src_path.exists()
Exists(smp, filename) == smp[filename].status # "missing"

\* cv2.imread: <<>> stands for None
Imread(smp, filename) ==
    IF smp[filename].status = "ok"
    THEN <<Image(filename, smp[filename].width, smp[filename].height)>>
    ELSE <<>>

(***************************************************************************)
(* Label Writer: the body of "with label_path.open('w') as f"              *)
(***************************************************************************)
\* f"{class_idx} {' '.join(map(str, bbox))}\n"
Line(class_idx, bbox) == [class_idx |-> class_idx, bbox |-> bbox]

\* faulty variant: one line per region, the class weight unused
RegionLines_unweighted(region, width, height) ==
    IF region.name # "rect" THEN <<>>
    ELSE IF region.element_type \in {Absent, ""} \/ ~InClasses(region.element_type)
    THEN <<>>
    ELSE <<Line(ClassIndex(region.element_type),
                convert_rect_to_yolo(region.x, region.y, region.width, region.height,
                                     width, height))>>

\* the lines one region contributes
RegionLines(region, width, height) ==
    IF region.name # "rect" THEN <<>>
    ELSE LET element_type == region.element_type IN
         IF element_type \in {Absent, ""} \/ ~InClasses(element_type) THEN <<>>
         ELSE LET bbox == convert_rect_to_yolo(region.x, region.y, region.width,
                                               region.height, width, height)
                  class_idx == ClassIndex(element_type)
                  weight == WeightOf(element_type)
              IN  [i \in 1..PyInt(weight) |-> Line(class_idx, bbox)]

RECURSIVE LabelLines(_, _, _)
LabelLines(regions, width, height) ==
    IF regions = <<>> THEN <<>>
    ELSE RegionLines(Head(regions), width, height)
            \o LabelLines(Tail(regions), width, height)

(***************************************************************************)
(* JournalDetector.process_via_annotations                                 *)
(***************************************************************************)
\* faulty variant: rounds to the nearest integer
SplitIdx_rounded(n, split_ratio) ==
    PyInt(RAdd(RMul(RInt(n), split_ratio), <<1, 2>>))

\* int(len(entries) * split_ratio)
SplitIdx(n, split_ratio) == PyInt(RMul(RInt(n), split_ratio))

\* 'train' if idx < split_idx else 'val'
SubsetOf(idx, split_idx) == IF idx < split_idx THEN "train" ELSE "val"

\* faulty variant: entries without a readable image dropped before numbering
Enumerated_present(entries, smp) ==
    LET present == SelectSeq(entries, LAMBDA e : smp[e.filename].status = "ok")
    IN  [i \in 1..Len(present) |-> [idx |-> i - 1, entry |-> present[i]]]

\* enumerate(entries): the (idx, entry) pairs the loop visits, idx from 0;
\* smp is not read: an entry is numbered whether or not its image is on disk
Enumerated(entries, smp) ==
    [i \in 1..Len(entries) |-> [idx |-> i - 1, entry |-> entries[i]]]

\* faulty variant: val entries augmented too
AugmentedFor_always(subset, img, filename, regions) ==
    augment_image(img, filename, regions)

\* the versions of an entry's image that are saved: augmented for train only
AugmentedFor(subset, img, filename, regions) ==
    IF subset = "train"
    THEN augment_image(img, filename, regions)
    ELSE [images |-> <<img>>, regions |-> <<regions>>]

\* one pass of "for aug_idx, (aug_img, aug_regions) in enumerate(zip(..))":
\* the image file and the label file it writes
SaveOne(idx, subset, filename, aug_img, aug_regions, aug_idx) ==
    LET aug_filename == AugFilename(filename, aug_idx)
    IN  [idx |-> idx, aug_idx |-> aug_idx, subset |-> subset,
         dest_path |-> <<subset, Stem(aug_filename), Suffix(aug_filename)>>,
         image |-> aug_img,
         label_path |-> <<subset, Stem(aug_filename)>>,
         lines |-> LabelLines(aug_regions, aug_img.width, aug_img.height)]

Min(a, b) == IF a < b THEN a ELSE b

\* the body of "for idx, (filename, entry) in enumerate(entries)":
\* the writes it makes, in order; none when the image is missing or unreadable
ProcessEntry(idx, entry, split_idx, smp) ==
    LET subset == SubsetOf(idx, split_idx)
        filename == entry.filename
    IN  IF ~Exists(smp, filename) THEN <<>>
        ELSE LET img == Imread(smp, filename) IN
             IF img = <<>> THEN <<>>
             ELSE LET aug == AugmentedFor(subset, img[1], filename, entry.regions)
                  IN  [k \in 1..Min(Len(aug.images), Len(aug.regions)) |->
                          SaveOne(idx, subset, filename,
                                  aug.images[k], aug.regions[k], k - 1)]

RECURSIVE Flatten(_)
Flatten(seqs) == IF seqs = <<>> THEN <<>> ELSE Head(seqs) \o Flatten(Tail(seqs))

\* a directory after the writes of log, made in order: the last write to a path
\* decides its content, every other file is left as it was
Last(S) == CHOOSE i \in S : \A j \in S : j <= i

ImagesAfter(dir, log) ==
    [k \in (DOMAIN dir) \cup {log[i].dest_path : i \in 1..Len(log)} |->
        LET w == {i \in 1..Len(log) : log[i].dest_path = k}
        IN  IF w = {} THEN dir[k] ELSE log[Last(w)].image]

LabelsAfter(dir, log) ==
    [k \in (DOMAIN dir) \cup {log[i].label_path : i \in 1..Len(log)} |->
        LET w == {i \in 1..Len(log) : log[i].label_path = k}
        IN  IF w = {} THEN dir[k] ELSE log[Last(w)].lines]

\* np.random.shuffle: the list becomes any rearrangement of itself
Range(seq) == {seq[i] : i \in 1..Len(seq)}
Count(seq, e) == Cardinality({i \in 1..Len(seq) : seq[i] = e})
Shuffles(entries) ==
    {s \in [1..Len(entries) -> Range(entries)] :
        \A e \in Range(entries) : Count(s, e) = Count(entries, e)}

\* the call as a whole; shuffled is the list np.random.shuffle leaves
process_via_annotations(image_data, split_ratio, shuffled, smp, imgs, lbls) ==
    LET entries == shuffled
        split_idx == SplitIdx(Len(entries), split_ratio)
        pairs == Enumerated(entries, smp)
        log == Flatten([k \in 1..Len(pairs) |->
                          ProcessEntry(pairs[k].idx, pairs[k].entry, split_idx, smp)])
    IN  [images |-> ImagesAfter(imgs, log),
         labels |-> LabelsAfter(lbls, log),
         entries |-> entries, split_ratio |-> split_ratio, split_idx |-> split_idx,
         assign |-> [k \in 1..Len(pairs) |->
                       [idx |-> pairs[k].idx,
                        subset |-> SubsetOf(pairs[k].idx, split_idx)]],
         log |-> log,
         processed_count |-> Len(log),
         augmented_count |-> Cardinality({i \in 1..Len(log) : log[i].aug_idx > 0})]

(***************************************************************************)
(* JournalDetector.create_yaml, JournalDetector.train                      *)
(***************************************************************************)
create_yaml ==
    [path |-> "dataset", train |-> "dataset/images/train", val |-> "dataset/images/val",
     nc |-> Len(classes), names |-> classes]

\* faulty variant: a non-zero exit status raises
train_checked(epochs, batch_size, img_size, status, log) ==
    [yaml |-> <<create_yaml>>,
     log  |-> log \o <<[op |-> "create_yaml", epochs |-> epochs, status |-> 0],
                       [op |-> "os.system", epochs |-> epochs, status |-> status]>>,
     out  |-> IF status = 0 THEN [returned |-> "None", raised |-> FALSE]
              ELSE [returned |-> "nothing", raised |-> TRUE]]

\* status is the exit status of the external training program, which train()
\* waits for (os.system returns it) and does not read
train(epochs, batch_size, img_size, status, log) ==
    [yaml |-> <<create_yaml>>,
     log  |-> log \o <<[op |-> "create_yaml", epochs |-> epochs, status |-> 0],
                       [op |-> "os.system", epochs |-> epochs, status |-> status]>>,
     out  |-> [returned |-> "None", raised |-> FALSE]]

(***************************************************************************)
(* JournalTester.process_image                                             *)
(***************************************************************************)
\* int() of a float: truncation toward zero
Box(x1, y1, x2, y2) == <<PyInt(x1), PyInt(y1), PyInt(x2), PyInt(y2)>>

\* faulty variant: conf > conf_threshold
Keeps_strict(conf, conf_threshold) == RLess(conf_threshold, conf)

\* "if conf >= conf_threshold"
Keeps(conf, conf_threshold) == RLeq(conf_threshold, conf)

\* the body of "for x1, y1, x2, y2, conf, class_id in predictions"
ProcessPrediction(out, p, conf_threshold) ==
    IF Keeps(p.conf, conf_threshold)
    THEN LET class_name == classes[p.class_id + 1]
         IN  [detections |->
                 [out.detections EXCEPT ![class_name] =
                     Append(@, [confidence |-> p.conf,
                                bbox |-> Box(p.x1, p.y1, p.x2, p.y2)])],
              drawn |-> Append(out.drawn,
                               [class_name |-> class_name, conf |-> p.conf,
                                bbox |-> Box(p.x1, p.y1, p.x2, p.y2)])]
    ELSE out

RECURSIVE ProcessPredictions(_, _, _, _)
ProcessPredictions(out, predictions, k, conf_threshold) ==
    IF k > Len(predictions) THEN out
    ELSE ProcessPredictions(ProcessPrediction(out, predictions[k], conf_threshold),
                            predictions, k + 1, conf_threshold)

\* readable: cv2.imread gave an image; predictions: results.xyxy[0] of the detector
process_image(readable, predictions, conf_threshold) ==
    IF ~readable THEN [returned |-> FALSE, detections |-> <<>>, drawn |-> <<>>]
    ELSE LET out == ProcessPredictions(
                        [detections |-> [c \in Range(classes) |-> <<>>], drawn |-> <<>>],
                        predictions, 1, conf_threshold)
         IN  [returned |-> TRUE, detections |-> out.detections, drawn |-> out.drawn]

(***************************************************************************)
(* Inputs of the components taken alone                                    *)
(***************************************************************************)
Coords == (0 - 1)..MaxCoord
Sizes == 1..MaxCoord

FileA == <<<<"a">>, ".jpg">>
FileB == <<<<"b">>, ".jpg">>

RegionPool ==
    { Region("rect", 0, 0, 1, 1, "date"),
      Region("polygon", 0, 0, 1, 1, "date"),
      Region("rect", 1, 0, MaxCoord, 1, "title"),
      Region("rect", 0, 1, 1, 1, "signature"),
      Region("rect", 0, 0, 1, MaxCoord, Absent),
      Region("rect", 1, 1, 1, 1, ""),
      Region("rect", 0 - 1, 1, 1, 1, "sub_image") }

RegionLists == SeqsUpTo(RegionPool, MaxRegions)

PoolImages == { Image(f, w, h) : f \in {FileA, FileB}, w \in Sizes, h \in Sizes }

Confs == {Rat(k, ConfDen) : k \in 0..ConfDen}

Prediction(x1, y1, x2, y2, conf, class_id) ==
    [x1 |-> x1, y1 |-> y1, x2 |-> x2, y2 |-> y2, conf |-> conf, class_id |-> class_id]

\* class ids are those of a detector trained on the five classes: 0..4
PredPool ==
    { Prediction(Rat(0 - 1, 2), Rat(3, 2), Rat(5, 2), Rat(7, 2), conf, class_id) :
        conf \in Confs, class_id \in {0, 1, Len(classes) - 1} }

PredLists == SeqsUpTo(PredPool, MaxPreds)

InitTrain ==
    /\ sample = <<>> /\ images = <<>> /\ labels = <<>> /\ via_data = <<>>
    /\ run = <<>> /\ lblIn = <<>>
    /\ augIn = <<>> /\ augOut = <<>>
    /\ cvIn = <<>> /\ cvOut = <<>>
    /\ yaml = <<>> /\ trainLog = <<>> /\ trainOut = <<>>
    /\ testIn = <<>> /\ testOut = <<>>

(***************************************************************************)
(* Specification of the Geometry Converter alone                           *)
(***************************************************************************)
InitGeom ==
    /\ cvIn \in Coords \X Coords \X Sizes \X Sizes \X Sizes \X Sizes
    /\ cvOut = <<>>
    /\ sample = <<>> /\ images = <<>> /\ labels = <<>> /\ via_data = <<>>
    /\ run = <<>> /\ lblIn = <<>> /\ augIn = <<>> /\ augOut = <<>>
    /\ yaml = <<>> /\ trainLog = <<>> /\ trainOut = <<>>
    /\ testIn = <<>> /\ testOut = <<>>

ConvertRect ==
    /\ cvOut = <<>>
    /\ cvOut' = convert_rect_to_yolo(cvIn[1], cvIn[2], cvIn[3], cvIn[4], cvIn[5], cvIn[6])
    /\ UNCHANGED <<cvIn, prepVars, augVars, trainVars, testVars>>

SpecGeom == InitGeom /\ [][ConvertRect]_vars

(***************************************************************************)
(* Specification of the Augmentation Stage alone                           *)
(***************************************************************************)
InitAug ==
    /\ augIn \in {<<image, image.src, regions>> :
                    image \in PoolImages, regions \in RegionLists}
    /\ augOut = <<>>
    /\ sample = <<>> /\ images = <<>> /\ labels = <<>> /\ via_data = <<>>
    /\ run = <<>> /\ lblIn = <<>> /\ cvIn = <<>> /\ cvOut = <<>>
    /\ yaml = <<>> /\ trainLog = <<>> /\ trainOut = <<>>
    /\ testIn = <<>> /\ testOut = <<>>

AugmentImage ==
    /\ augOut = <<>>
    /\ augOut' = <<augment_image(augIn[1], augIn[2], augIn[3])>>
    /\ UNCHANGED <<augIn, prepVars, cvVars, trainVars, testVars>>

SpecAug == InitAug /\ [][AugmentImage]_vars

(***************************************************************************)
(* Specification of the Label Writer alone: the label file of one image of *)
(* the given size is written from its region list                          *)
(***************************************************************************)
InitLabel ==
    /\ lblIn \in {<<<<subset, Stem(FileA)>>, regions, w, h>> :
                    subset \in {"train", "val"}, regions \in RegionLists,
                    w \in Sizes, h \in Sizes}
    /\ labels = <<>>
    /\ sample = <<>> /\ images = <<>> /\ via_data = <<>> /\ run = <<>>
    /\ augIn = <<>> /\ augOut = <<>> /\ cvIn = <<>> /\ cvOut = <<>>
    /\ yaml = <<>> /\ trainLog = <<>> /\ trainOut = <<>>
    /\ testIn = <<>> /\ testOut = <<>>

WriteLabelFile ==
    /\ lblIn[1] \notin DOMAIN labels
    /\ labels' = WriteFile(labels, lblIn[1], LabelLines(lblIn[2], lblIn[3], lblIn[4]))
    /\ UNCHANGED <<sample, images, via_data, run, lblIn,
                   augVars, cvVars, trainVars, testVars>>

SpecLabel == InitLabel /\ [][WriteLabelFile]_vars

(***************************************************************************)
(* Specification of the training driver: train() called up to MaxTrains    *)
(* times, the external program ending with any exit status                 *)
(***************************************************************************)
ExitStatuses == {0, 1, 2}
EpochChoices == {1, 200}

Train ==
    /\ Len(trainLog) < 2 * MaxTrains
    /\ \E status \in ExitStatuses, epochs \in EpochChoices :
          \E r \in {train(epochs, 16, 640, status, trainLog)} :
              /\ yaml' = r.yaml
              /\ trainLog' = r.log
              /\ trainOut' = <<r.out>>
    /\ UNCHANGED <<prepVars, augVars, cvVars, testVars>>

SpecTrain == InitTrain /\ [][Train]_vars

(***************************************************************************)
(* Specification of the inference driver: process_image on one image       *)
(***************************************************************************)
InitTest ==
    /\ testIn \in {<<readable, predictions, conf_threshold>> :
                     readable \in BOOLEAN, predictions \in PredLists,
                     conf_threshold \in Confs}
    /\ testOut = <<>>
    /\ sample = <<>> /\ images = <<>> /\ labels = <<>> /\ via_data = <<>>
    /\ run = <<>> /\ lblIn = <<>>
    /\ augIn = <<>> /\ augOut = <<>> /\ cvIn = <<>> /\ cvOut = <<>>
    /\ yaml = <<>> /\ trainLog = <<>> /\ trainOut = <<>>

ProcessImage ==
    /\ testOut = <<>>
    /\ testOut' = <<process_image(testIn[1], testIn[2], testIn[3])>>
    /\ UNCHANGED <<testIn, prepVars, augVars, cvVars, trainVars>>

SpecTest == InitTest /\ [][ProcessImage]_vars

(***************************************************************************)
(* Specification of dataset preparation: JournalDetector() followed by     *)
(* process_via_annotations, any number of times in one working directory   *)
(***************************************************************************)
FileA2 == <<<<"a">>, ".png">>
FileM == <<<<"m">>, ".jpg">>
FileK == <<<<"k">>, ".jpg">>

\* SampleJournals/: m.jpg does not exist, k.jpg exists and cannot be decoded
Disk ==
    [f \in {FileA, FileB, FileA2, FileM, FileK} |->
        CASE f = FileA  -> [status |-> "ok", width |-> 2, height |-> 1]
          [] f = FileB  -> [status |-> "ok", width |-> 1, height |-> 2]
          [] f = FileA2 -> [status |-> "ok", width |-> 2, height |-> 2]
          [] f = FileM  -> [status |-> "missing", width |-> 0, height |-> 0]
          [] f = FileK  -> [status |-> "corrupt", width |-> 0, height |-> 0]]

Entry(filename, regions) == [filename |-> filename, regions |-> regions]

EntryA == Entry(FileA, <<Region("rect", 0, 0, 1, 1, "date"),
                         Region("rect", 1, 0, 2, 1, "title")>>)
EntryA2 == Entry(FileA2, <<Region("polygon", 0, 0, 1, 1, "title"),
                           Region("rect", 0 - 1, 1, 1, 1, "sub_image"),
                           Region("rect", 0, 0, 1, 2, "signature")>>)
EntryB == Entry(FileB, <<Region("polygon", 0, 0, 1, 1, "date")>>)
EntryM == Entry(FileM, <<Region("rect", 0, 0, 1, 1, "date")>>)
EntryK == Entry(FileK, <<Region("rect", 0, 0, 1, 1, "title")>>)

EntryPool == {EntryA, EntryA2, EntryM, EntryK}

Exports == SeqsUpTo(EntryPool, MaxEntries)

Ratios == {Rat(k, RatioDen) : k \in 0..RatioDen}

InitPrep ==
    /\ sample = Disk
    /\ via_data \in Exports
    /\ images = <<>> /\ labels = <<>> /\ run = <<>> /\ lblIn = <<>>
    /\ augIn = <<>> /\ augOut = <<>>
    /\ cvIn = <<>> /\ cvOut = <<>>
    /\ yaml = <<>> /\ trainLog = <<>> /\ trainOut = <<>>
    /\ testIn = <<>> /\ testOut = <<>>

\* detector = JournalDetector(); detector.process_via_annotations(json, split_ratio)
PrepareWith(split_ratio) ==
    \E shuffled \in Shuffles(via_data) :
        \E r \in {process_via_annotations(via_data, split_ratio, shuffled, sample,
                                          mkdir(images), mkdir(labels))} :
            /\ images' = r.images
            /\ labels' = r.labels
            /\ run' = <<[entries |-> r.entries, split_ratio |-> r.split_ratio,
                         split_idx |-> r.split_idx, assign |-> r.assign, log |-> r.log,
                         processed_count |-> r.processed_count,
                         augmented_count |-> r.augmented_count]>>
            /\ UNCHANGED <<sample, via_data, lblIn, augVars, cvVars, trainVars, testVars>>

Prepare == \E split_ratio \in Ratios : PrepareWith(split_ratio)

SpecPrep == InitPrep /\ [][Prepare]_vars

(***************************************************************************)
(* Specification of the end-to-end scenario: main() run once in a fresh    *)
(* working directory on an export of ten entries whose images all exist,   *)
(* with the default split_ratio                                            *)
(***************************************************************************)
\* def process_via_annotations(self, json_file, split_ratio=0.8)
DefaultSplitRatio == Rat(4, 5)

TenEntries ==
    { <<EntryA, EntryA, EntryA, EntryA, EntryA2, EntryA2, EntryA2, EntryB, EntryB, EntryB>>,
      <<EntryA, EntryA2, EntryA2, EntryA2, EntryA2, EntryA2, EntryA2, EntryA2, EntryA2, EntryB>> }

InitE2E ==
    /\ sample = Disk
    /\ via_data \in TenEntries
    /\ images = <<>> /\ labels = <<>> /\ run = <<>> /\ lblIn = <<>>
    /\ augIn = <<>> /\ augOut = <<>>
    /\ cvIn = <<>> /\ cvOut = <<>>
    /\ yaml = <<>> /\ trainLog = <<>> /\ trainOut = <<>>
    /\ testIn = <<>> /\ testOut = <<>>

Main ==
    /\ run = <<>>
    /\ PrepareWith(DefaultSplitRatio)

SpecE2E == InitE2E /\ [][Main]_vars

(***************************************************************************)
(*                              The claims                                 *)
(***************************************************************************)
\* the subset the last run gave to the entry at position idx (from 0)
AssignedTo(r, idx) == {r.assign[i].subset : i \in {j \in 1..Len(r.assign) : r.assign[j].idx = idx}}
WritesOf(r, idx) == {j \in 1..Len(r.log) : r.log[j].idx = idx}
InSubset(r, subset) == {i \in 1..Len(r.assign) : r.assign[i].subset = subset}
\* floor(N * r) for r = num/den, in integers
FloorOfProduct(n, ratio) == (n * ratio[1]) \div ratio[2]
HasDate(regions) == \E i \in 1..Len(regions) : regions[i].element_type = "date"

(***************************************************************************)
(* C1: in process_via_annotations, for an export of N entries and split    *)
(* ratio r, floor(N*r) entries are train and N - floor(N*r) are val, and   *)
(* every entry is in exactly one of the two subsets.                       *)
(***************************************************************************)
C1_SplitCounts ==
    run # <<>> =>
        LET r == run[1]
            n == Len(via_data)
            cut == FloorOfProduct(n, r.split_ratio)
        IN  /\ Len(r.entries) = n
            /\ Cardinality(InSubset(r, "train")) = cut
            /\ Cardinality(InSubset(r, "val")) = n - cut
            /\ \A idx \in 0..(n - 1) :
                  /\ Cardinality({i \in 1..Len(r.assign) : r.assign[i].idx = idx}) = 1
                  /\ \A j \in WritesOf(r, idx) :
                        /\ AssignedTo(r, idx) = {r.log[j].subset}
                        /\ r.log[j].dest_path[1] = r.log[j].subset
                        /\ r.log[j].label_path[1] = r.log[j].subset

\* N * r is not a whole number, and both subsets are inhabited
C1_Witness ==
    /\ run # <<>>
    /\ (Len(via_data) * run[1].split_ratio[1]) % run[1].split_ratio[2] # 0
    /\ InSubset(run[1], "train") # {}
    /\ InSubset(run[1], "val") # {}

(***************************************************************************)
(* C2: augment_image returns 5 (image, regions) pairs when some region has *)
(* element_type "date" and 1 pair otherwise; the first pair is the         *)
(* original image and every pair carries the region list that was passed.  *)
(***************************************************************************)
C2_AugmentCount ==
    augOut # <<>> =>
        LET image == augIn[1]
            regions == augIn[3]
            out == augOut[1]
            n == IF HasDate(regions) THEN 5 ELSE 1
        IN  /\ Len(out.images) = n
            /\ Len(out.regions) = n
            /\ out.images[1] = image
            /\ \A i \in 1..n : out.regions[i] = regions

\* the only date region is not a rectangle: still five pairs
C2_Witness ==
    /\ augOut # <<>>
    /\ HasDate(augIn[3])
    /\ \A i \in 1..Len(augIn[3]) :
          augIn[3][i].element_type = "date" => augIn[3][i].name = "polygon"
    /\ Len(augOut[1].images) = 5
    /\ augOut[1].images[2] # augIn[1]

TableIndex(t) ==
    CASE t = "date" -> 0 [] t = "title" -> 1 [] t = "journal_entry" -> 2
      [] t = "main_image" -> 3 [] t = "sub_image" -> 4

TableWeight(t) ==
    CASE t = "date" -> 5 [] t = "title" -> 4 [] t = "journal_entry" -> 2
      [] t = "main_image" -> 2 [] t = "sub_image" -> 1

Block(region, w, h) ==
    IF /\ region.name = "rect"
       /\ region.element_type \in {"date", "title", "journal_entry", "main_image", "sub_image"}
    THEN [i \in 1..TableWeight(region.element_type) |->
             [class_idx |-> TableIndex(region.element_type),
              bbox |-> <<Rat(2 * region.x + region.width, 2 * w),
                         Rat(2 * region.y + region.height, 2 * h),
                         Rat(region.width, w),
                         Rat(region.height, h)>>]]
    ELSE <<>>

Blocks(regions, w, h) == Flatten([i \in 1..Len(regions) |-> Block(regions[i], w, h)])

(***************************************************************************)
(* C3: the label file written for an image is the concatenation, in region *)
(* order, of one block per region: a "rect" region whose element_type is   *)
(* in the Class Table gives weight(element_type) identical lines           *)
(* "<class_index> <x_center> <y_center> <width> <height>" (5 for "date"),  *)
(* any other region gives no line.                                         *)
(***************************************************************************)
C3_LabelFile ==
    lblIn[1] \in DOMAIN labels =>
        labels[lblIn[1]] = Blocks(lblIn[2], lblIn[3], lblIn[4])

\* a region that gives no line, then a date rectangle: five lines
C3_Witness ==
    /\ lblIn[1] \in DOMAIN labels
    /\ Len(lblIn[2]) = 2
    /\ lblIn[2][1].name = "polygon" \/ lblIn[2][1].element_type \in {"signature", Absent, ""}
    /\ lblIn[2][2].name = "rect" /\ lblIn[2][2].element_type = "date"
    /\ Len(labels[lblIn[1]]) = 5
    /\ labels[lblIn[1]][1] = labels[lblIn[1]][5]

(***************************************************************************)
(* C4: an entry whose image is missing or unreadable is skipped without    *)
(* aborting the run: nothing is written for it, and every later entry is   *)
(* processed with the train/val assignment of its own position.            *)
(***************************************************************************)
C4_SkipAndContinue ==
    run # <<>> =>
        LET r == run[1]
            n == Len(r.entries)
            cut == FloorOfProduct(n, r.split_ratio)
        IN  \A i \in 1..n :
                IF sample[r.entries[i].filename].status = "ok"
                THEN /\ WritesOf(r, i - 1) # {}
                     /\ \A j \in WritesOf(r, i - 1) :
                           /\ r.log[j].subset = IF i - 1 < cut THEN "train" ELSE "val"
                           /\ r.log[j].image.src = r.entries[i].filename
                           /\ r.log[j].dest_path \in DOMAIN images
                           /\ r.log[j].label_path \in DOMAIN labels
                ELSE WritesOf(r, i - 1) = {}

\* a skipped entry followed, after the cut, by a processed one
C4_Witness ==
    /\ run # <<>>
    /\ \E i, j \in 1..Len(run[1].entries) :
          /\ i < j
          /\ sample[run[1].entries[i].filename].status # "ok"
          /\ sample[run[1].entries[j].filename].status = "ok"
          /\ i - 1 < run[1].split_idx
          /\ j - 1 >= run[1].split_idx
          /\ \E k \in WritesOf(run[1], j - 1) : run[1].log[k].subset = "val"

TableName(class_id) ==
    CASE class_id = 0 -> "date" [] class_id = 1 -> "title" [] class_id = 2 -> "journal_entry"
      [] class_id = 3 -> "main_image" [] class_id = 4 -> "sub_image"

AtLeast(conf, t) == conf[1] * t[2] >= t[1] * conf[2]

Confidences(seq) == [i \in 1..Len(seq) |-> seq[i].conf]

(***************************************************************************)
(* C5: process_image keeps a prediction (stores it and draws it) exactly   *)
(* when conf >= threshold, under the class name at index class_id of the   *)
(* Class Table and in prediction order; the number of stored detections is *)
(* the number of predictions with conf >= threshold.                       *)
(***************************************************************************)
C5_ThresholdFilter ==
    (testOut # <<>> /\ testIn[1]) =>
        LET predictions == testIn[2]
            t == testIn[3]
            out == testOut[1]
            kept == SelectSeq(predictions, LAMBDA p : AtLeast(p.conf, t))
            d == out.detections
        IN  /\ out.returned
            /\ DOMAIN d = {"date", "title", "journal_entry", "main_image", "sub_image"}
            /\ \A c \in DOMAIN d :
                  [i \in 1..Len(d[c]) |-> d[c][i].confidence] =
                      Confidences(SelectSeq(kept, LAMBDA p : TableName(p.class_id) = c))
            /\ Len(d["date"]) + Len(d["title"]) + Len(d["journal_entry"])
                  + Len(d["main_image"]) + Len(d["sub_image"]) = Len(kept)
            /\ Len(out.drawn) = Len(kept)
            /\ \A i \in 1..Len(kept) :
                  /\ out.drawn[i].conf = kept[i].conf
                  /\ out.drawn[i].class_name = TableName(kept[i].class_id)

\* one prediction exactly at the threshold is kept, one below it is dropped
C5_Witness ==
    /\ testOut # <<>> /\ testIn[1]
    /\ Len(testIn[2]) = 2
    /\ testIn[2][1].conf = testIn[3]
    /\ ~AtLeast(testIn[2][2].conf, testIn[3])
    /\ Len(testOut[1].drawn) = 1
    /\ Len(testOut[1].detections[TableName(testIn[2][1].class_id)]) = 1

AugStems(stem) ==
    {stem, stem \o <<"_aug1">>, stem \o <<"_aug2">>, stem \o <<"_aug3">>, stem \o <<"_aug4">>}

(***************************************************************************)
(* C6: after process_via_annotations on an export of 10 entries with ratio *)
(* 0.8, 8 entries are train and 2 are val, and each train entry with a     *)
(* date region has 5 images in images/train (its own file name and         *)
(* <stem>_aug1 .. <stem>_aug4) and 5 label files in labels/train with the  *)
(* same stems.                                                             *)
(***************************************************************************)
C6_EndToEnd ==
    run # <<>> =>
        LET r == run[1] IN
        /\ Len(r.entries) = 10
        /\ r.split_ratio[1] * 10 = 8 * r.split_ratio[2]
        /\ Cardinality(InSubset(r, "train")) = 8
        /\ Cardinality(InSubset(r, "val")) = 2
        /\ \A i \in 1..Len(r.entries) :
              (AssignedTo(r, i - 1) = {"train"} /\ HasDate(r.entries[i].regions)) =>
                  LET f == r.entries[i].filename
                      paths == {r.log[j].dest_path : j \in WritesOf(r, i - 1)}
                      lpaths == {r.log[j].label_path : j \in WritesOf(r, i - 1)}
                  IN  /\ paths = {<<"train", st, f[2]>> : st \in AugStems(f[1])}
                      /\ lpaths = {<<"train", st>> : st \in AugStems(f[1])}
                      /\ Cardinality(paths) = 5
                      /\ Cardinality(lpaths) = 5
                      /\ paths \subseteq DOMAIN images
                      /\ lpaths \subseteq DOMAIN labels

\* a date entry in train (five images) and a date entry in val
C6_Witness ==
    /\ run # <<>>
    /\ \E i, j \in 1..Len(run[1].entries) :
          /\ HasDate(run[1].entries[i].regions)
          /\ HasDate(run[1].entries[j].regions)
          /\ AssignedTo(run[1], i - 1) = {"train"}
          /\ AssignedTo(run[1], j - 1) = {"val"}
          /\ Cardinality(WritesOf(run[1], i - 1)) = 5

\* r = n/d as an equation between integers
RatIs(r, n, d) == r[2] > 0 /\ r[1] * d = n * r[2]

(***************************************************************************)
(* C7: for w, h, W, H > 0 convert_rect_to_yolo returns exactly             *)
(* [(x + w/2)/W, (y + h/2)/H, w/W, h/H], with no clamping: a rectangle     *)
(* that extends past the image edge gives components outside [0,1].        *)
(***************************************************************************)
C7_ExactUnclamped ==
    cvOut # <<>> =>
        LET x == cvIn[1]  y == cvIn[2]  w == cvIn[3]
            h == cvIn[4]  iw == cvIn[5] ih == cvIn[6]
        IN  /\ Len(cvOut) = 4
            /\ RatIs(cvOut[1], 2 * x + w, 2 * iw)
            /\ RatIs(cvOut[2], 2 * y + h, 2 * ih)
            /\ RatIs(cvOut[3], w, iw)
            /\ RatIs(cvOut[4], h, ih)

\* a rectangle past the right edge and above the top edge: x_center > 1, y_center < 0
C7_Witness ==
    /\ cvOut # <<>>
    /\ cvIn[1] + cvIn[3] > cvIn[5]
    /\ cvIn[2] < 0
    /\ RLess(RInt(1), cvOut[1])
    /\ RLess(cvOut[2], RInt(0))
    /\ RLess(RInt(1), cvOut[3])

(***************************************************************************)
(* C8: train writes the dataset config, then invokes the external training *)
(* program once and waits for it; the outcome of train is the same         *)
(* whatever the exit status: nothing raised, no retry, no status returned. *)
(***************************************************************************)
C8_ExitStatusIgnored ==
    trainOut # <<>> =>
        LET n == Len(trainLog) IN
        /\ n >= 2
        /\ \A i \in 1..n :
              trainLog[i].op = IF i % 2 = 1 THEN "create_yaml" ELSE "os.system"
        /\ trainLog[n - 1].epochs = trainLog[n].epochs
        /\ yaml = <<[path |-> "dataset", train |-> "dataset/images/train",
                     val |-> "dataset/images/val", nc |-> 5,
                     names |-> <<"date", "title", "journal_entry", "main_image", "sub_image">>]>>
        /\ trainOut = <<[returned |-> "None", raised |-> FALSE]>>

\* a run of the external program that failed, after one that succeeded
C8_Witness ==
    /\ trainOut # <<>>
    /\ Len(trainLog) = 4
    /\ trainLog[2].status = 0
    /\ trainLog[4].status # 0
    /\ ~trainOut[1].raised

(***************************************************************************)
(* C9: a run of process_via_annotations creates or overwrites files and    *)
(* never deletes one: the file names under dataset/images and              *)
(* dataset/labels after a run include those before it, so a file of an     *)
(* earlier run with another split stays (one image name in train and val). *)
(***************************************************************************)
C9_NeverDeletes ==
    [][/\ DOMAIN images \subseteq DOMAIN images'
       /\ DOMAIN labels \subseteq DOMAIN labels']_vars

\* an image name in train and in val, one of the two left by an earlier run
C9_Witness ==
    /\ run # <<>>
    /\ \E k1, k2 \in DOMAIN images :
          /\ k1[1] = "train" /\ k2[1] = "val"
          /\ k1[2] = k2[2] /\ k1[3] = k2[3]
          /\ k1 \notin {run[1].log[i].dest_path : i \in 1..Len(run[1].log)}
          /\ k2 \in {run[1].log[i].dest_path : i \in 1..Len(run[1].log)}

(***************************************************************************)
(* C10: augmentation is applied to train entries only: a readable entry    *)
(* assigned to val gives exactly one image in images/val, under its own    *)
(* file name, and exactly one label file in labels/val, even when it has a *)
(* "date" region.                                                          *)
(***************************************************************************)
C10_ValNotAugmented ==
    run # <<>> =>
        LET r == run[1] IN
        /\ \A j \in 1..Len(r.log) : r.log[j].aug_idx > 0 => r.log[j].subset = "train"
        /\ \A i \in 1..Len(r.entries) :
              (/\ sample[r.entries[i].filename].status = "ok"
               /\ AssignedTo(r, i - 1) = {"val"}) =>
                  LET f == r.entries[i].filename IN
                  /\ Cardinality(WritesOf(r, i - 1)) = 1
                  /\ \A j \in WritesOf(r, i - 1) :
                        /\ r.log[j].dest_path = <<"val", f[1], f[2]>>
                        /\ r.log[j].label_path = <<"val", f[1]>>
                        /\ r.log[j].image.enh = "none"
                        /\ r.log[j].dest_path \in DOMAIN images
                        /\ r.log[j].label_path \in DOMAIN labels

\* a readable val entry with a date region
C10_Witness ==
    /\ run # <<>>
    /\ \E i \in 1..Len(run[1].entries) :
          /\ sample[run[1].entries[i].filename].status = "ok"
          /\ HasDate(run[1].entries[i].regions)
          /\ AssignedTo(run[1], i - 1) = {"val"}
          /\ Cardinality(WritesOf(run[1], i - 1)) = 1

====
